---------------------------- MODULE Spec2Model ----------------------------
(***************************************************************************)
(* A model of harp: the client agent (src/src/lib.rs), the action codec    *)
(* (src/src/action.rs) and the harpd server (src/bin/src/server.rs).       *)
(***************************************************************************)
EXTENDS Integers, Sequences, FiniteSets, TLC

(***************************************************************************)
(* Program constants.                                                      *)
(***************************************************************************)
POSTGRES_BIND_LIMIT == 65535
FIELDS_PER_ROW == 5
LIMIT == POSTGRES_BIND_LIMIT \div FIELDS_PER_ROW
INITIAL_CAPACITY == 100
RESERVE_ADDITIONAL == 100
MIN_PACKET_SIZE == 128
DEFAULT_MAX_PACKET_SIZE == 1024
RETRY_RESERVE_BATCH_SIZE == 10
RETRY_CONNECT_LIMIT == 15
RETRY_CONNECT_INTERVAL_SECS == 3
RETRY_RESERVE_INTERVAL_SECS == 3
DEFAULT_PORT == 7777
U16_MAX == 65535

(***************************************************************************)
(* Bounds of the model.                                                    *)
(***************************************************************************)
\* frames one peer sends over one connection in the two-peer specification
MaxSend == 1
\* frames the single peer sends in the bulk specification, beyond the
\* initial capacity of the queue
MaxBulkExtra == 2
\* allocator refusals
MaxAllocFail == 2
\* frames one peer sends that are malformed or too long
MaxJunk == 1
\* actions the producers send to the agent
MaxProduce == 2
\* frames the server end sends back to the agent
MaxBounce == 11
\* the short queues, and the distance from LIMIT of the queues about LIMIT
\* long, that the flush specification starts from
MaxSmallQueue == 3
MaxNearLimit == 2
\* the number of records of the two-flush scenario
ScenarioRecords == 20000
\* sender handles alive at one time
MaxHandles == 2
\* frames a socket buffer holds in one direction of a connection
SocketBuffer == 1
\* actions the producers send to an agent whose sends wait for the buffer
MaxDuplexProduce == 4
\* one frame in so many that arrive at the agent is no record
InboundJunkEvery == 4
\* deadlines of an interval that have passed without their tick being taken
MaxDue == 2

Max(a, b) == IF a >= b THEN a ELSE b
Min(a, b) == IF a <= b THEN a ELSE b

(***************************************************************************)
(* The record codec.  A text is a TLA+ string.  A frame payload is a       *)
(* sequence of wire fields, each a record:                                 *)
(*   [t |-> "u32", v |-> n]      4 bytes, big-endian                       *)
(*   [t |-> "str", v |-> s]      2-byte length, then the bytes of s        *)
(*   [t |-> "raw", v |-> n]      a 2-byte length n, then n bytes that are  *)
(*                               not valid UTF-8                           *)
(*   [t |-> "pad", v |-> n]      n further bytes                           *)
(***************************************************************************)
U32(n) == [t |-> "u32", v |-> n]
Str(s) == [t |-> "str", v |-> s]
Raw(n) == [t |-> "raw", v |-> n]
Pad(n) == [t |-> "pad", v |-> n]

FieldLen(f) ==
    CASE f.t = "u32" -> 4
      [] f.t = "str" -> 2 + Len(f.v)
      [] f.t = "raw" -> 2 + f.v
      [] f.t = "pad" -> f.v

RECURSIVE BytesLen(_)
\* bytes.len() of a frame payload
BytesLen(fr) == IF fr = <<>> THEN 0 ELSE FieldLen(Head(fr)) + BytesLen(Tail(fr))

Ok(v) == [ok |-> TRUE, v |-> v]
Err(kind, from, to) == [ok |-> FALSE, kind |-> kind, from |-> from, to |-> to]

\* Bufferfish::read_u32 on what is left of the buffer
read_u32(buf) ==
    IF buf # <<>> /\ Head(buf).t = "u32"
    THEN Ok(Head(buf).v)
    ELSE Err("BufferRead", "", "u32")

\* Bufferfish::read_string on what is left of the buffer
read_string(buf) ==
    IF buf # <<>> /\ Head(buf).t = "str"
    THEN Ok(Head(buf).v)
    ELSE Err("BufferRead", "", "String")

\* Bufferfish::write_string: the 2-byte length prefix bounds the text
write_string(s) ==
    IF Len(s) > U16_MAX THEN Err("BufferRead", s, "u16") ELSE Ok(Str(s))

(***************************************************************************)
(* IpNetwork: an address and a prefix length.  Display always prints the   *)
(* prefix; FromStr accepts the address with or without it.                 *)
(***************************************************************************)
IpAddrs == {"127.0.0.1", "10.1.2.3", "2001:db8::1"}
HostPrefix(ip) == IF ip = "2001:db8::1" THEN 128 ELSE 32
\* IpNetwork::from(ip)
IpNetworkFrom(ip) == [ip |-> ip, prefix |-> HostPrefix(ip)]
IpNetworks == {IpNetworkFrom(ip) : ip \in IpAddrs} \cup {[ip |-> "10.1.2.3", prefix |-> 8]}
\* <IpNetwork as Display>::fmt
IpNetworkToString(n) == n.ip \o "/" \o ToString(n.prefix)
\* <IpNetwork as FromStr>::from_str
IpNetworkParse(s) ==
    IF \E n \in IpNetworks : IpNetworkToString(n) = s
    THEN Ok(CHOOSE n \in IpNetworks : IpNetworkToString(n) = s)
    ELSE IF s \in IpAddrs THEN Ok(IpNetworkFrom(s))
    ELSE Err("Parse", s, "ipnetwork::IpNetwork")

(***************************************************************************)
(* serde_json::Value.  to_string prints the compact form; from_str also    *)
(* accepts insignificant white space.                                      *)
(***************************************************************************)
JsonValues == {"Null", "Reason", "Count"}
\* serde_json::to_string
JsonToString(v) ==
    CASE v = "Null" -> "null"
      [] v = "Reason" -> "{\"reason\":\"lost connection\"}"
      [] v = "Count" -> "[1,2]"
JsonSpaced(v) ==
    CASE v = "Null" -> " null"
      [] v = "Reason" -> "{ \"reason\": \"lost connection\" }"
      [] v = "Count" -> "[1, 2]"
\* serde_json::from_str
JsonParse(s) ==
    IF \E v \in JsonValues : s \in {JsonToString(v), JsonSpaced(v)}
    THEN Ok(CHOOSE v \in JsonValues : s \in {JsonToString(v), JsonSpaced(v)})
    ELSE Err("Parse", s, "serde_json::Value")

(***************************************************************************)
(* time::OffsetDateTime, UTC.  Display prints the hour unpadded and the    *)
(* subsecond without trailing zeros; the format description of the parser  *)
(* wants a two-digit hour and one to nine subsecond digits.                *)
(***************************************************************************)
Times == [hour : {9, 13}, nanos : {0, 500000000, 558038011}]

RECURSIVE Pow10(_)
Pow10(k) == IF k = 0 THEN 1 ELSE 10 * Pow10(k - 1)

RECURSIVE Digits(_, _)
\* n printed in exactly w decimal digits
Digits(n, w) == IF w = 0 THEN "" ELSE Digits(n \div 10, w - 1) \o ToString(n % 10)

\* the number of subsecond digits Display prints
SubsecondWidth(nanos) ==
    CHOOSE w \in 1..9 :
        /\ nanos % Pow10(9 - w) = 0
        /\ (w = 1 \/ nanos % Pow10(10 - w) # 0)

\* <OffsetDateTime as Display>::fmt
TimeToString(c) ==
    "2023-02-24 " \o ToString(c.hour) \o ":01:12."
        \o Digits(c.nanos \div Pow10(9 - SubsecondWidth(c.nanos)), SubsecondWidth(c.nanos))
        \o " +00:00:00"

\* a text the format description accepts for c, with w subsecond digits
TimeFormatted(c, w) ==
    "2023-02-24 " \o Digits(c.hour, 2) \o ":01:12."
        \o Digits(c.nanos \div Pow10(9 - w), w) \o " +00:00:00"

\* a parser that keeps microseconds only
TimeParse_Micros(s) ==
    IF \E c \in Times, w \in 1..9 : c.nanos % Pow10(9 - w) = 0 /\ TimeFormatted(c, w) = s
    THEN LET c == CHOOSE d \in Times :
                      \E w \in 1..9 : d.nanos % Pow10(9 - w) = 0 /\ TimeFormatted(d, w) = s
         IN  Ok([hour |-> c.hour, nanos |-> (c.nanos \div 1000) * 1000])
    ELSE Err("Parse", s, "time::OffsetDateTime")

\* OffsetDateTime::parse with the format description of action.rs
TimeParse(s) ==
    IF \E c \in Times, w \in 1..9 : c.nanos % Pow10(9 - w) = 0 /\ TimeFormatted(c, w) = s
    THEN Ok(CHOOSE c \in Times :
                \E w \in 1..9 : c.nanos % Pow10(9 - w) = 0 /\ TimeFormatted(c, w) = s)
    ELSE Err("Parse", s, "time::OffsetDateTime")

(***************************************************************************)
(* Action and its two conversions.                                         *)
(***************************************************************************)
NoDetail == "None"
Kinds == {"player_join", "player_leave"}

\* Action::new / Action::with_detail
Action(id, ip, kind, detail, created) ==
    [id |-> id, addr |-> IpNetworkFrom(ip), kind |-> kind, detail |-> detail,
     created |-> created]

\* impl TryFrom<Action> for Bufferfish
Encode(a) ==
    LET addrW == write_string(IpNetworkToString(a.addr))
        kind == write_string(a.kind)
        detail == IF a.detail = NoDetail THEN write_string("")
                  ELSE write_string(JsonToString(a.detail))
        created == write_string(TimeToString(a.created))
    IN  IF ~addrW.ok THEN addrW
        ELSE IF ~kind.ok THEN kind
        ELSE IF ~detail.ok THEN detail
        ELSE IF ~created.ok THEN created
        ELSE Ok(<<U32(a.id), addrW.v, kind.v, detail.v, created.v>>)

\* the remaining buffer after k fields were read
Rest(buf, k) == IF Len(buf) >= k THEN SubSeq(buf, k + 1, Len(buf)) ELSE <<>>

\* impl TryFrom<Bufferfish> for Action
Decode(buf) ==
    LET id == read_u32(buf)
        addrS == read_string(Rest(buf, 1))
        addrN == IF addrS.ok THEN IpNetworkParse(addrS.v) ELSE addrS
        kind == read_string(Rest(buf, 2))
        detailS == read_string(Rest(buf, 3))
        detail == IF ~detailS.ok THEN detailS
                  ELSE IF detailS.v = "" THEN Ok(NoDetail)
                  ELSE JsonParse(detailS.v)
        createdS == read_string(Rest(buf, 4))
        created == IF createdS.ok THEN TimeParse(createdS.v) ELSE createdS
    IN  IF ~id.ok THEN id
        ELSE IF ~addrN.ok THEN addrN
        ELSE IF ~kind.ok THEN kind
        ELSE IF ~detail.ok THEN detail
        ELSE IF ~created.ok THEN created
        ELSE Ok([id |-> id.v, addr |-> addrN.v, kind |-> kind.v, detail |-> detail.v,
                 created |-> created.v])

(***************************************************************************)
(* State.                                                                  *)
(***************************************************************************)
VARIABLES
    toml_max_packet_size, \* max_packet_size in config.toml: None when the key is absent
    max_packet_size,  \* Config::max_packet_size, as configured
    queue,            \* the shared Vec<Action>
    capacity,         \* its capacity
    lock,             \* the holder of the RwLock write guard: NoOne, Flusher, or a peer
    hpc,              \* per peer, where its handle_connection task stands
    hact,             \* per peer, the decoded action the handler holds
    hframe,           \* per peer, the payload of the frame the handler read last
    s2c,              \* per peer, the frames the handler wrote to the peer
    sent,             \* per peer, the number of well-formed records the peer has sent
    junk,             \* per peer, the number of other frames the peer has sent
    allocFails,       \* the number of allocator refusals so far
    fpc,              \* where the queue processor task stands
    batch,            \* the rows bound to the INSERT being executed
    table,            \* the rows of harp.actions
    rx,               \* the agent's channel: actions sent by producers, not yet received
    reserve_queue,    \* Harp::reserve_queue
    apc,              \* where Harp::run stands
    conn,             \* the state of the agent's StubbornIo stream
    asend,            \* the frame the agent is sending
    adrain,           \* the drained frames the retry loop has yet to send
    wire,             \* the frames the agent wrote to the stream, in order
    produced,         \* the number of actions producers have sent
    bounced,          \* the number of frames the server end has sent back
    cpc,              \* the stage of the record followed through the codec
    cact,             \* that record, as the producer built it
    cwire,            \* its frame payload, as the agent sent it
    cdec,             \* the action the handler decoded from it
    cback,            \* the frame payload the handler sent back
    host,             \* the host given to create_service_with_options
    port,             \* the port given to it
    addr,             \* the socket address create_addr made of them
    attempt,          \* reconnect attempts made since the connection was lost
    delay,            \* the seconds waited before the last reconnect attempt
    handles,          \* the sender handles producers hold
    due,              \* passed deadlines of the agent's retry interval, not yet ticked
    fdue              \* passed deadlines of the flusher's interval, not yet ticked

serverVars == <<toml_max_packet_size, max_packet_size, queue, capacity, lock, hpc, hact, hframe, s2c, sent, junk,
                allocFails, fpc, batch, table>>
agentVars == <<rx, reserve_queue, apc, conn, asend, adrain, wire, produced, bounced>>
codecVars == <<cpc, cact, cwire, cdec, cback>>
linkVars == <<host, port, addr, attempt, delay, handles>>
clockVars == <<due, fdue>>
vars == <<serverVars, agentVars, codecVars, linkVars, clockVars>>
\* the server-side variables the agent does not touch
serverRest == <<toml_max_packet_size, max_packet_size, queue, capacity, lock, hpc, hact, hframe, sent, junk,
                allocFails, fpc, batch, table>>
\* the agent's variables the codec steps do not touch
agentRest == <<rx, apc, conn, asend, adrain, wire, produced, bounced>>

Peers == {1, 2}
\* the holders of the queue's write guard
NoOne == [task |-> "none", peer |-> 0]
Flusher == [task |-> "process_queue", peer |-> 0]
Handler(p) == [task |-> "handle_connection", peer |-> p]
NoAction == [kind |-> "no action"]

\* the configured max_packet_size values the model draws from; 1024 is
\* default_max_packet_size()
ConfigSizes == {64, DEFAULT_MAX_PACKET_SIZE}

(***************************************************************************)
(* What a peer may send.                                                   *)
(***************************************************************************)
SampleAction(id) ==
    Action(id, "127.0.0.1", "player_join", IF id % 2 = 0 THEN "Reason" ELSE NoDetail,
           [hour |-> 13, nanos |-> 558038011])

ValidFrame(id) == Encode(SampleAction(id)).v

\* frames that fail to decode: short read, invalid UTF-8, unparseable
\* address, malformed JSON, unparseable timestamp
MalformedFrames ==
    { <<U32(0), Str("127.0.0.1/32")>>,
      <<U32(0), Str("127.0.0.1/32"), Raw(3), Str(""), Str("2023-02-24 13:01:12.5 +00:00:00")>>,
      <<U32(0), Str("not-an-ip"), Str("player_join"), Str(""), Str("2023-02-24 13:01:12.5 +00:00:00")>>,
      <<U32(0), Str("127.0.0.1/32"), Str("player_join"), Str("{oops"), Str("2023-02-24 13:01:12.5 +00:00:00")>>,
      <<U32(0), Str("127.0.0.1/32"), Str("player_join"), Str(""), Str("yesterday")>> }

\* the limit handle_connection enforces
EffectiveLimit(configured) == IF configured < MIN_PACKET_SIZE THEN MIN_PACKET_SIZE ELSE configured

\* a well-formed record followed by enough bytes to make the payload n bytes long
PaddedFrame(n) == ValidFrame(0) \o <<Pad(n - BytesLen(ValidFrame(0)))>>

\* frames longer than the limit in force
OversizeFrames(configured) == {PaddedFrame(EffectiveLimit(configured) + 1)}

\* frames exactly as long as the limit in force
LimitFrames(configured) == {PaddedFrame(EffectiveLimit(configured))}

\* the id of the k-th record of peer p
IdOf(p, k) == 1000 * p + k

BulkSend == INITIAL_CAPACITY + MaxBulkExtra
AllIds ==
    {IdOf(1, k) : k \in 1..Max(BulkSend, MaxSend)}
        \cup {IdOf(2, k) : k \in 1..Max(Max(MaxSend, MaxProduce), MaxDuplexProduce)}

\* the payload lengths around the floor and around the default limit
ProbeSizes ==
    {MIN_PACKET_SIZE - 1, MIN_PACKET_SIZE, MIN_PACKET_SIZE + 1, MIN_PACKET_SIZE + 2,
     DEFAULT_MAX_PACKET_SIZE, DEFAULT_MAX_PACKET_SIZE + 1}

\* well-formed records padded to these lengths
ProbeFrames == {PaddedFrame(n) : n \in ProbeSizes}

AllFrames ==
    {ValidFrame(id) : id \in AllIds} \cup MalformedFrames \cup ProbeFrames
        \cup UNION {OversizeFrames(c) \cup LimitFrames(c) : c \in ConfigSizes}

\* the conversions and the payload length, tabulated over the frames and
\* actions of the model
DecodeTable == [b \in AllFrames |-> Decode(b)]
LenTable == [b \in AllFrames |-> BytesLen(b)]
AllActions == {DecodeTable[b].v : b \in {f \in AllFrames : DecodeTable[f].ok}}
EncodeTable == [a \in AllActions |-> Encode(a)]

(***************************************************************************)
(* The server: listen, handle_connection, process_queue.                   *)
(***************************************************************************)
InitServer ==
    /\ queue = <<>>
    /\ capacity = INITIAL_CAPACITY
    /\ lock = NoOne
    /\ hpc = [p \in Peers |-> "idle"]
    /\ hact = [p \in Peers |-> NoAction]
    /\ hframe = [p \in Peers |-> <<>>]
    /\ s2c = [p \in Peers |-> <<>>]
    /\ sent = [p \in Peers |-> 0]
    /\ junk = [p \in Peers |-> 0]
    /\ allocFails = 0
    /\ fpc = "tick"
    /\ fdue = 1
    /\ batch = <<>>
    /\ table = <<>>

\* listener.accept() returns a connection and a handler task is spawned
Accept(p) ==
    /\ hpc[p] = "idle"
    /\ hpc' = [hpc EXCEPT ![p] = "next"]
    /\ UNCHANGED <<toml_max_packet_size, max_packet_size, queue, capacity, lock, hact, hframe, s2c, sent, junk,
                   allocFails, fpc, batch, table>>
    /\ UNCHANGED <<agentVars, codecVars, linkVars, clockVars>>

\* a handler that rejects a frame as long as the limit
HandleFrame_LimitExcluded(p, bytes) ==
    /\ hpc[p] = "next"
    /\ hframe' = [hframe EXCEPT ![p] = bytes]
    /\ IF LenTable[bytes] >= EffectiveLimit(max_packet_size)
       THEN /\ hpc' = [hpc EXCEPT ![p] = "done"]
            /\ hact' = [hact EXCEPT ![p] = NoAction]
       ELSE IF ~DecodeTable[bytes].ok
       THEN /\ hpc' = hpc
            /\ hact' = [hact EXCEPT ![p] = NoAction]
       ELSE /\ hpc' = [hpc EXCEPT ![p] = "write"]
            /\ hact' = [hact EXCEPT ![p] = DecodeTable[bytes].v]
    /\ UNCHANGED <<toml_max_packet_size, max_packet_size, queue, capacity, lock, s2c,
                   allocFails, fpc, batch, table>>
    /\ UNCHANGED <<agentVars, codecVars, linkVars, clockVars>>

\* a handler without the size check
HandleFrame_NoSizeCheck(p, bytes) ==
    /\ hpc[p] = "next"
    /\ hframe' = [hframe EXCEPT ![p] = bytes]
    /\ IF ~DecodeTable[bytes].ok
       THEN /\ hpc' = hpc
            /\ hact' = [hact EXCEPT ![p] = NoAction]
       ELSE /\ hpc' = [hpc EXCEPT ![p] = "write"]
            /\ hact' = [hact EXCEPT ![p] = DecodeTable[bytes].v]
    /\ UNCHANGED <<toml_max_packet_size, max_packet_size, queue, capacity, lock, s2c, allocFails, fpc, batch,
                   table>>
    /\ UNCHANGED <<agentVars, codecVars, linkVars, clockVars>>

\* frame.next() yields Some(Ok(bytes)): the size check and the decoding
HandleFrame(p, bytes) ==
    /\ hpc[p] = "next"
    /\ hframe' = [hframe EXCEPT ![p] = bytes]
    /\ IF LenTable[bytes] > EffectiveLimit(max_packet_size)
       THEN /\ hpc' = [hpc EXCEPT ![p] = "done"]
            /\ hact' = [hact EXCEPT ![p] = NoAction]
       ELSE IF ~DecodeTable[bytes].ok
       THEN /\ hpc' = hpc
            /\ hact' = [hact EXCEPT ![p] = NoAction]
       ELSE /\ hpc' = [hpc EXCEPT ![p] = "write"]
            /\ hact' = [hact EXCEPT ![p] = DecodeTable[bytes].v]
    /\ UNCHANGED <<toml_max_packet_size, max_packet_size, queue, capacity, lock, s2c, allocFails, fpc, batch,
                   table>>
    /\ UNCHANGED <<agentVars, codecVars, linkVars, clockVars>>

\* Vec::try_reserve(additional) that succeeds, on a vector with len = cap
GrownCapacity(cap, len) == Max(2 * cap, len + RESERVE_ADDITIONAL)

\* a handler that works on the vector without waiting for the guard
HandleWrite_NoLock(p, refused) ==
    /\ hpc[p] = "write"
    /\ IF Len(queue) < capacity
       THEN \* push_within_capacity is Ok
            /\ ~refused
            /\ queue' = Append(queue, hact[p])
            /\ hact' = [hact EXCEPT ![p] = NoAction]
            /\ hpc' = [hpc EXCEPT ![p] = "next"]
            /\ UNCHANGED <<capacity, lock, allocFails>>
       ELSE IF ~refused
       THEN \* try_reserve is Ok: nothing else is done with the action
            /\ capacity' = GrownCapacity(capacity, Len(queue))
            /\ hact' = [hact EXCEPT ![p] = NoAction]
            /\ hpc' = [hpc EXCEPT ![p] = "next"]
            /\ UNCHANGED <<queue, lock, allocFails>>
       ELSE \* try_reserve is Err: the action is sent back, the guard held
            /\ allocFails < MaxAllocFail
            /\ allocFails' = allocFails + 1
            /\ lock' = Handler(p)
            /\ hpc' = [hpc EXCEPT ![p] = "send"]
            /\ UNCHANGED <<queue, capacity, hact>>
    /\ UNCHANGED <<toml_max_packet_size, max_packet_size, hframe, s2c, sent, junk, fpc, batch, table>>
    /\ UNCHANGED <<agentVars, codecVars, linkVars, clockVars>>

\* a handler that drops the guard before it sends the record back
HandleWrite_ReleaseFirst(p, refused) ==
    /\ hpc[p] = "write"
    /\ lock = NoOne
    /\ IF Len(queue) < capacity
       THEN /\ ~refused
            /\ queue' = Append(queue, hact[p])
            /\ hact' = [hact EXCEPT ![p] = NoAction]
            /\ hpc' = [hpc EXCEPT ![p] = "next"]
            /\ UNCHANGED <<capacity, lock, allocFails>>
       ELSE IF ~refused
       THEN /\ capacity' = GrownCapacity(capacity, Len(queue))
            /\ hact' = [hact EXCEPT ![p] = NoAction]
            /\ hpc' = [hpc EXCEPT ![p] = "next"]
            /\ UNCHANGED <<queue, lock, allocFails>>
       ELSE /\ allocFails < MaxAllocFail
            /\ allocFails' = allocFails + 1
            /\ hpc' = [hpc EXCEPT ![p] = "send"]
            /\ UNCHANGED <<queue, capacity, hact, lock>>
    /\ UNCHANGED <<toml_max_packet_size, max_packet_size, hframe, s2c, sent, junk, fpc, batch, table>>
    /\ UNCHANGED <<agentVars, codecVars, linkVars, clockVars>>

\* queue.write().await returns; push_within_capacity, and try_reserve when
\* the vector is full.  refused: whether the allocator refuses the growth.
HandleWrite(p, refused) ==
    /\ hpc[p] = "write"
    /\ lock = NoOne
    /\ IF Len(queue) < capacity
       THEN \* push_within_capacity is Ok
            /\ ~refused
            /\ queue' = Append(queue, hact[p])
            /\ hact' = [hact EXCEPT ![p] = NoAction]
            /\ hpc' = [hpc EXCEPT ![p] = "next"]
            /\ UNCHANGED <<capacity, lock, allocFails>>
       ELSE IF ~refused
       THEN \* try_reserve is Ok: nothing else is done with the action
            /\ capacity' = GrownCapacity(capacity, Len(queue))
            /\ hact' = [hact EXCEPT ![p] = NoAction]
            /\ hpc' = [hpc EXCEPT ![p] = "next"]
            /\ UNCHANGED <<queue, lock, allocFails>>
       ELSE \* try_reserve is Err: the action is sent back, the guard held
            /\ allocFails < MaxAllocFail
            /\ allocFails' = allocFails + 1
            /\ lock' = Handler(p)
            /\ hpc' = [hpc EXCEPT ![p] = "send"]
            /\ UNCHANGED <<queue, capacity, hact>>
    /\ UNCHANGED <<toml_max_packet_size, max_packet_size, hframe, s2c, sent, junk, fpc, batch, table>>
    /\ UNCHANGED <<agentVars, codecVars, linkVars, clockVars>>

\* a handler that leaves its loop once it has sent a record back
HandleSend_Break(p, ok) ==
    /\ hpc[p] = "send"
    /\ lock = Handler(p)
    /\ IF ok /\ EncodeTable[hact[p]].ok
       THEN /\ s2c' = [s2c EXCEPT ![p] = Append(@, EncodeTable[hact[p]].v)]
            /\ hpc' = [hpc EXCEPT ![p] = "done"]
       ELSE /\ s2c' = s2c
            /\ hpc' = [hpc EXCEPT ![p] = "failed"]
    /\ hact' = [hact EXCEPT ![p] = NoAction]
    /\ lock' = NoOne
    /\ UNCHANGED <<toml_max_packet_size, max_packet_size, queue, capacity, hframe, sent, junk, allocFails, fpc,
                   batch, table>>
    /\ UNCHANGED <<agentVars, codecVars, linkVars, clockVars>>

\* a handler that, having sent the record back, makes room and enqueues it
\* as well
HandleSend_AlsoEnqueues(p, ok) ==
    /\ hpc[p] = "send"
    /\ lock = Handler(p)
    /\ IF ok /\ EncodeTable[hact[p]].ok
       THEN /\ s2c' = [s2c EXCEPT ![p] = Append(@, EncodeTable[hact[p]].v)]
            /\ hpc' = [hpc EXCEPT ![p] = "next"]
            /\ queue' = Append(queue, hact[p])
            /\ capacity' = GrownCapacity(capacity, Len(queue))
       ELSE /\ s2c' = s2c
            /\ hpc' = [hpc EXCEPT ![p] = "failed"]
            /\ UNCHANGED <<queue, capacity>>
    /\ hact' = [hact EXCEPT ![p] = NoAction]
    /\ lock' = NoOne
    /\ UNCHANGED <<toml_max_packet_size, max_packet_size, hframe, sent, junk, allocFails, fpc, batch, table>>
    /\ UNCHANGED <<agentVars, codecVars, linkVars, clockVars>>

\* frame.send(bf.into()).await returns
HandleSend(p, ok) ==
    /\ hpc[p] = "send"
    /\ lock = Handler(p)
    /\ IF ok /\ EncodeTable[hact[p]].ok
       THEN /\ s2c' = [s2c EXCEPT ![p] = Append(@, EncodeTable[hact[p]].v)]
            /\ hpc' = [hpc EXCEPT ![p] = "next"]
       ELSE /\ s2c' = s2c
            /\ hpc' = [hpc EXCEPT ![p] = "failed"]
    /\ hact' = [hact EXCEPT ![p] = NoAction]
    /\ lock' = NoOne
    /\ UNCHANGED <<toml_max_packet_size, max_packet_size, queue, capacity, hframe, sent, junk, allocFails, fpc,
                   batch, table>>
    /\ UNCHANGED <<agentVars, codecVars, linkVars, clockVars>>

\* frame.next() yields None: the peer closed the connection
HandleEof(p) ==
    /\ hpc[p] = "next"
    /\ hpc' = [hpc EXCEPT ![p] = "done"]
    /\ UNCHANGED <<toml_max_packet_size, max_packet_size, queue, capacity, lock, hact, hframe, s2c, sent, junk,
                   allocFails, fpc, batch, table>>
    /\ UNCHANGED <<agentVars, codecVars, linkVars, clockVars>>

\* frame.next() yields Some(Err(e)): the error is logged and the loop
\* continues.  The FramedRead of tokio-util that has yielded an error is in
\* its errored state: the next poll of it yields None before it reads on.
HandleReadError(p) ==
    /\ hpc[p] = "next"
    /\ hpc' = [hpc EXCEPT ![p] = "errored"]
    /\ UNCHANGED <<toml_max_packet_size, max_packet_size, queue, capacity, lock, hact, hframe, s2c, sent, junk,
                   allocFails, fpc, batch, table>>
    /\ UNCHANGED <<agentVars, codecVars, linkVars, clockVars>>

\* frame.next() after the error yields None: the handler logs "Service
\* disconnected", breaks and returns Ok(())
HandleAfterError(p) ==
    /\ hpc[p] = "errored"
    /\ hpc' = [hpc EXCEPT ![p] = "done"]
    /\ UNCHANGED <<toml_max_packet_size, max_packet_size, queue, capacity, lock, hact, hframe, s2c, sent, junk,
                   allocFails, fpc, batch, table>>
    /\ UNCHANGED <<agentVars, codecVars, linkVars, clockVars>>

\* the tick branch of the queue processor's select! is taken
FlusherTickBranch ==
    /\ fpc = "tick"
    /\ fpc' = "write"
    /\ UNCHANGED <<toml_max_packet_size, max_packet_size, queue, capacity, lock, hpc, hact, hframe, s2c, sent,
                   junk, allocFails, batch, table>>
    /\ UNCHANGED <<agentVars, codecVars, linkVars>>

\* interval.tick() fires in the queue processor task, at whatever time
FlusherTick ==
    /\ FlusherTickBranch
    /\ UNCHANGED clockVars

\* a period of process_interval_secs passes: one more deadline of the
\* interval is behind.  With a tick due the processor takes it before more
\* time passes, unless it is held up by the INSERT or waits for the guard.
FlusherElapse ==
    /\ fdue < MaxDue
    /\ fdue = 0 \/ fpc = "execute" \/ (fpc = "write" /\ lock # NoOne)
    /\ fdue' = fdue + 1
    /\ due' = due
    /\ UNCHANGED <<serverVars, agentVars, codecVars, linkVars>>

\* interval.tick() with the clock: it completes when a deadline has passed.
\* The interval is made by interval(period), whose MissedTickBehavior is
\* Burst: each missed deadline gives a tick of its own, back to back.
FlusherTickDue ==
    /\ fdue > 0
    /\ FlusherTickBranch
    /\ fdue' = fdue - 1
    /\ due' = due

\* a drain of the whole queue, whatever its length
Drained_NoLimit(q) == q

\* the records queue.drain(..) yields in process_queue
Drained(q) == IF Len(q) > LIMIT THEN SubSeq(q, 1, LIMIT) ELSE q

\* a drain that leaves the drained records in the queue
Remaining_NoRemoval(q) == q

\* the records left in the queue
Remaining(q) == IF Len(q) > LIMIT THEN SubSeq(q, LIMIT + 1, Len(q)) ELSE <<>>

\* the columns of harp.actions the INSERT names; push_values binds one
\* parameter for each of them per record
Columns == <<"unique_id", "ip_address", "kind", "detail", "created">>

\* the parameters bound by the INSERT built from the batch b
BoundParameters(b) == Len(Columns) * Len(b)

\* a process_queue without the is_empty check: it builds and runs a statement
\* for an empty queue as well
ProcessQueue_NoEmptyCheck ==
    /\ fpc = "write"
    /\ lock = NoOne
    /\ batch' = Drained(queue)
    /\ queue' = Remaining(queue)
    /\ lock' = Flusher
    /\ fpc' = "execute"
    /\ UNCHANGED <<toml_max_packet_size, max_packet_size, capacity, hpc, hact, hframe, s2c, sent, junk,
                   allocFails, table>>
    /\ UNCHANGED <<agentVars, codecVars, linkVars, clockVars>>

\* process_queue up to query.execute(): the guard is taken, the queue drained
\* and the INSERT built
ProcessQueue ==
    /\ fpc = "write"
    /\ lock = NoOne
    /\ IF queue = <<>>
       THEN /\ fpc' = "tick"
            /\ UNCHANGED <<queue, lock, batch>>
       ELSE /\ batch' = Drained(queue)
            /\ queue' = Remaining(queue)
            /\ lock' = Flusher
            /\ fpc' = "execute"
    /\ UNCHANGED <<toml_max_packet_size, max_packet_size, capacity, hpc, hact, hframe, s2c, sent, junk,
                   allocFails, table>>
    /\ UNCHANGED <<agentVars, codecVars, linkVars, clockVars>>

\* a queue processor that puts the batch of a failed INSERT back at the head
\* of the queue
ExecuteDone_Requeue(ok) ==
    /\ fpc = "execute"
    /\ lock = Flusher
    /\ table' = IF ok THEN table \o batch ELSE table
    /\ queue' = IF ok THEN queue ELSE batch \o queue
    /\ batch' = <<>>
    /\ lock' = NoOne
    /\ fpc' = "tick"
    /\ UNCHANGED <<toml_max_packet_size, max_packet_size, capacity, hpc, hact, hframe, s2c, sent, junk,
                   allocFails>>
    /\ UNCHANGED <<agentVars, codecVars, linkVars, clockVars>>

\* an INSERT that puts the rows of the batch before the rows already there
ExecuteDone_Prepend(ok) ==
    /\ fpc = "execute"
    /\ lock = Flusher
    /\ table' = IF ok THEN batch \o table ELSE table
    /\ batch' = <<>>
    /\ lock' = NoOne
    /\ fpc' = "tick"
    /\ UNCHANGED <<toml_max_packet_size, max_packet_size, queue, capacity, hpc, hact, hframe, s2c, sent, junk,
                   allocFails>>
    /\ UNCHANGED <<agentVars, codecVars, linkVars, clockVars>>

\* query.execute(&*pg).await returns; process_queue returns and drops the guard
ExecuteDone(ok) ==
    /\ fpc = "execute"
    /\ lock = Flusher
    /\ table' = IF ok THEN table \o batch ELSE table
    /\ batch' = <<>>
    /\ lock' = NoOne
    /\ fpc' = "tick"
    /\ UNCHANGED <<toml_max_packet_size, max_packet_size, queue, capacity, hpc, hact, hframe, s2c, sent, junk,
                   allocFails>>
    /\ UNCHANGED <<agentVars, codecVars, linkVars, clockVars>>

(***************************************************************************)
(* The peers of the server.                                                *)
(***************************************************************************)
\* peer p sends its next well-formed record
SendRecord(p) ==
    /\ HandleFrame(p, ValidFrame(IdOf(p, sent[p] + 1)))
    /\ sent' = [sent EXCEPT ![p] = @ + 1]
    /\ junk' = junk

\* peer p sends another frame: malformed, too long, or as long as allowed
SendJunk(p, bytes) ==
    /\ HandleFrame(p, bytes)
    /\ junk' = [junk EXCEPT ![p] = @ + 1]
    /\ sent' = sent

(***************************************************************************)
(* The client agent: Harp::run.  Its stream is the connection of peer 1.   *)
(***************************************************************************)
AgentPeer == CHOOSE p \in Peers : \A q \in Peers : p <= q

\* frame.next() in the handler of the agent's connection yields the next
\* frame the agent wrote to the stream; sent counts the frames read
HandleNext ==
    /\ sent[AgentPeer] < Len(wire)
    /\ HandleFrame(AgentPeer, wire[sent[AgentPeer] + 1])
    /\ sent' = [sent EXCEPT ![AgentPeer] = @ + 1]
    /\ junk' = junk
NoFrame == <<>>

\* Option<T>
None == [some |-> FALSE]
Some(v) == [some |-> TRUE, v |-> v]

\* the texts <IpAddr as FromStr>::from_str accepts among the hosts of the
\* model, with the address each one denotes
IpAddrTable ==
    {<<"127.0.0.1", <<127, 0, 0, 1>>>>, <<"255.255.255.255", <<255, 255, 255, 255>>>>,
     <<"10.1.2.3", <<10, 1, 2, 3>>>>, <<"0.0.0.0", <<0, 0, 0, 0>>>>,
     <<"::1", <<0, 0, 0, 0, 0, 0, 0, 1>>>>,
     <<"2001:db8::1", <<8193, 3512, 0, 0, 0, 0, 0, 1>>>>}

\* host.parse::<IpAddr>()
IpAddrParse(s) ==
    IF \E e \in IpAddrTable : e[1] = s
    THEN Ok((CHOOSE e \in IpAddrTable : e[1] = s)[2])
    ELSE Err("AddrParse", s, "std::net::IpAddr")

\* the hosts and ports a caller may pass
HostTexts ==
    {e[1] : e \in IpAddrTable}
        \cup {"not-an-ip", "hello, world!", "localhost", "256.1.1.1", "127.0.0.1:7777", "", " 127.0.0.1", "1.2.3"}
Hosts == {None} \cup {Some(h) : h \in HostTexts}
Ports == {None} \cup {Some(n) : n \in {0, 1, 7000, DEFAULT_PORT, U16_MAX}}

\* a host and port that parse nothing but the default
create_addr_NoFallback(h, p) ==
    LET ip == IpAddrParse(IF h.some THEN h.v ELSE "127.0.0.1")
    IN  [ip |-> IF ip.ok THEN ip.v ELSE <<0, 0, 0, 0>>,
         port |-> IF p.some THEN p.v ELSE DEFAULT_PORT]

\* Harp::create_addr
create_addr(h, p) ==
    LET ip == IpAddrParse(IF h.some THEN h.v ELSE "127.0.0.1")
    IN  [ip |-> IF ip.ok THEN ip.v ELSE <<127, 0, 0, 1>>,
         port |-> IF p.some THEN p.v ELSE DEFAULT_PORT]

NoAddr == [ip |-> <<>>, port |-> 0]

\* a generator that starts at one interval
backoff_generator_FromOne == [i \in 1..RETRY_CONNECT_LIMIT |-> RETRY_CONNECT_INTERVAL_SECS * i]

\* backoff_generator: the delays, in seconds, in the order the iterator yields them
backoff_generator ==
    [i \in 1..RETRY_CONNECT_LIMIT |-> RETRY_CONNECT_INTERVAL_SECS * (i - 1)]

\* the agent as create_service() leaves it: connected to the default
\* address, one sender handle given out, the first tick of the interval due
InitAgent ==
    /\ host = None /\ port = None /\ addr = create_addr(None, None)
    /\ attempt = 0 /\ delay = 0
    /\ handles = 1
    /\ due = 1
    /\ rx = <<>>
    /\ reserve_queue = <<>>
    /\ apc = "select"
    /\ conn = "up"
    /\ asend = NoFrame
    /\ adrain = <<>>
    /\ wire = <<>>
    /\ produced = 0
    /\ bounced = 0

\* the caller of create_service_with_options / connect, before the call:
\* nothing is connected, no agent task is spawned, no Sender is given out
InitConnect ==
    /\ host \in Hosts /\ port \in Ports /\ addr = NoAddr
    /\ attempt = 0 /\ delay = 0
    /\ handles = 0
    /\ due = 1
    /\ rx = <<>>
    /\ reserve_queue = <<>>
    /\ apc = "unspawned"
    /\ conn = "new"
    /\ asend = NoFrame
    /\ adrain = <<>>
    /\ wire = <<>>
    /\ produced = 0
    /\ bounced = 0

\* connect / connect_with_options: the address is made from host and port
CreateAddr ==
    /\ conn = "new"
    /\ addr' = create_addr(host, port)
    /\ conn' = "connecting"
    /\ UNCHANGED <<host, port, attempt, delay, handles>>
    /\ UNCHANGED <<rx, reserve_queue, apc, asend, adrain, wire, produced, bounced>>
    /\ UNCHANGED <<serverVars, codecVars, clockVars>>

\* raw_connect: StubbornTcpStream::connect_with_options(addr, options).await?
\* A first connection that fails is not retried: the error is returned.  On
\* success create_service spawns run() and returns the Sender.
RawConnect(ok) ==
    /\ conn = "connecting"
    /\ IF ok
       THEN conn' = "up" /\ apc' = "select" /\ handles' = handles + 1
       ELSE conn' = "refused" /\ UNCHANGED <<apc, handles>>
    /\ UNCHANGED <<host, port, addr, attempt, delay>>
    /\ UNCHANGED <<rx, reserve_queue, asend, adrain, wire, produced, bounced>>
    /\ UNCHANGED <<serverVars, codecVars, clockVars>>

\* Harp keeps a Sender of its own in self.tx, for as long as run() runs
HarpOwnsSender == TRUE

\* flume: the channel is disconnected once no Sender of it is left
ChannelDisconnected == handles = 0 /\ ~HarpOwnsSender

\* a producer clones the Sender it holds
CloneSender ==
    /\ handles > 0
    /\ handles < MaxHandles
    /\ handles' = handles + 1
    /\ UNCHANGED <<host, port, addr, attempt, delay>>
    /\ UNCHANGED <<serverVars, agentVars, codecVars, clockVars>>

\* a producer drops a Sender it holds
DropSender ==
    /\ handles > 0
    /\ handles' = handles - 1
    /\ UNCHANGED <<host, port, addr, attempt, delay>>
    /\ UNCHANGED <<serverVars, agentVars, codecVars, clockVars>>

\* a producer calls send(action) on its Sender
ProducerSend(a) ==
    /\ handles > 0
    /\ rx' = Append(rx, a)
    /\ produced' = produced + 1
    /\ UNCHANGED <<reserve_queue, apc, conn, asend, adrain, wire, bounced, s2c>>
    /\ UNCHANGED <<serverRest, codecVars, linkVars, clockVars>>

\* the server end of the stream writes a frame back
ServerBounce(bytes) ==
    /\ conn = "up"
    /\ s2c' = [s2c EXCEPT ![AgentPeer] = Append(@, bytes)]
    /\ bounced' = bounced + 1
    /\ UNCHANGED <<rx, reserve_queue, apc, conn, asend, adrain, wire, produced>>
    /\ UNCHANGED <<serverRest, codecVars, linkVars, clockVars>>

\* the established connection fails: StubbornIo starts to reconnect, with
\* a fresh iterator of backoff_generator
Disconnect ==
    /\ conn = "up"
    /\ conn' = "reconnecting"
    /\ attempt' = 0
    /\ delay' = 0
    /\ UNCHANGED <<rx, reserve_queue, apc, asend, adrain, wire, produced, bounced, s2c>>
    /\ UNCHANGED <<host, port, addr, handles>>
    /\ UNCHANGED <<serverRest, codecVars, clockVars>>

\* the iterator yields its next delay, StubbornIo sleeps for it and tries to
\* connect.  ok: whether the attempt succeeds.
ReconnectAttempt(ok) ==
    /\ conn = "reconnecting"
    /\ attempt < Len(backoff_generator)
    /\ delay' = backoff_generator[attempt + 1]
    /\ attempt' = attempt + 1
    /\ conn' = IF ok THEN "up" ELSE "reconnecting"
    /\ UNCHANGED <<rx, reserve_queue, apc, asend, adrain, wire, produced, bounced, s2c>>
    /\ UNCHANGED <<host, port, addr, handles>>
    /\ UNCHANGED <<serverRest, codecVars, clockVars>>

\* a reconnect attempt succeeds
Reconnected == ReconnectAttempt(TRUE)

\* a reconnect attempt fails
ReconnectFailed == ReconnectAttempt(FALSE)

\* the iterator of backoff_generator is used up: the stream has failed for good
RetriesExhausted ==
    /\ conn = "reconnecting"
    /\ attempt >= Len(backoff_generator)
    /\ conn' = "dead"
    /\ UNCHANGED <<rx, reserve_queue, apc, asend, adrain, wire, produced, bounced, s2c>>
    /\ UNCHANGED <<serverRest, codecVars, linkVars, clockVars>>

\* an agent that decodes what it receives: it reserves the re-encoded
\* record and throws away a frame that does not decode
AgentRecv_Decoding ==
    /\ apc = "select"
    /\ conn = "up"
    /\ s2c[AgentPeer] # <<>>
    /\ reserve_queue' =
         IF DecodeTable[Head(s2c[AgentPeer])].ok
         THEN Append(reserve_queue, Encode(DecodeTable[Head(s2c[AgentPeer])].v).v)
         ELSE reserve_queue
    /\ s2c' = [s2c EXCEPT ![AgentPeer] = Tail(@)]
    /\ UNCHANGED <<rx, apc, conn, asend, adrain, wire, produced, bounced>>
    /\ UNCHANGED <<serverRest, codecVars, linkVars, clockVars>>

\* select!: Some(Ok(bytes)) = self.stream.next()
AgentRecv ==
    /\ apc = "select"
    /\ conn = "up"
    /\ s2c[AgentPeer] # <<>>
    /\ reserve_queue' = Append(reserve_queue, Head(s2c[AgentPeer]))
    /\ s2c' = [s2c EXCEPT ![AgentPeer] = Tail(@)]
    /\ UNCHANGED <<rx, apc, conn, asend, adrain, wire, produced, bounced>>
    /\ UNCHANGED <<serverRest, codecVars, linkVars, clockVars>>

\* an agent without a Sender of its own that leaves run() when recv_async()
\* reports the channel disconnected
AgentAction_ExitOnDisconnect ==
    /\ apc = "select"
    /\ rx # <<>> \/ handles = 0
    /\ IF rx = <<>>
       THEN apc' = "returned" /\ UNCHANGED <<rx, asend>>
       ELSE /\ rx' = Tail(rx)
            /\ IF Encode(Head(rx)).ok
               THEN apc' = "send" /\ asend' = Encode(Head(rx)).v
               ELSE apc' = "returned" /\ asend' = NoFrame
    /\ UNCHANGED <<reserve_queue, conn, adrain, wire, produced, bounced, s2c>>
    /\ UNCHANGED <<serverRest, codecVars, linkVars, clockVars>>

\* a channel that hands out the action sent last
AgentAction_Lifo ==
    /\ apc = "select"
    /\ rx # <<>>
    /\ rx' = SubSeq(rx, 1, Len(rx) - 1)
    /\ IF Encode(rx[Len(rx)]).ok
       THEN apc' = "send" /\ asend' = Encode(rx[Len(rx)]).v
       ELSE apc' = "returned" /\ asend' = NoFrame
    /\ UNCHANGED <<reserve_queue, conn, adrain, wire, produced, bounced, s2c>>
    /\ UNCHANGED <<serverRest, codecVars, linkVars, clockVars>>

\* an agent that logs an action it cannot encode and goes on
AgentAction_SkipUnencodable ==
    /\ apc = "select"
    /\ rx # <<>>
    /\ rx' = Tail(rx)
    /\ IF Encode(Head(rx)).ok
       THEN apc' = "send" /\ asend' = Encode(Head(rx)).v
       ELSE apc' = "select" /\ asend' = NoFrame
    /\ UNCHANGED <<reserve_queue, conn, adrain, wire, produced, bounced, s2c>>
    /\ UNCHANGED <<serverRest, codecVars, linkVars, clockVars>>

\* select!: Ok(action) = self.rx.recv_async(), and action.try_into()?
AgentAction ==
    /\ apc = "select"
    /\ rx # <<>>
    /\ rx' = Tail(rx)
    /\ IF Encode(Head(rx)).ok
       THEN apc' = "send" /\ asend' = Encode(Head(rx)).v
       ELSE apc' = "returned" /\ asend' = NoFrame
    /\ UNCHANGED <<reserve_queue, conn, adrain, wire, produced, bounced, s2c>>
    /\ UNCHANGED <<serverRest, codecVars, linkVars, clockVars>>

\* self.stream.send(frame).await returns: Ok while the connection is up, Err
\* once the stream has failed for good; it does not return while StubbornIo
\* reconnects
StreamSend(bytes) ==
    /\ conn # "reconnecting"
    /\ wire' = IF conn = "up" THEN Append(wire, bytes) ELSE wire

\* an agent that keeps the frame of a failed send for the retry tick
AgentSendDone_Reserve ==
    /\ apc = "send"
    /\ StreamSend(asend)
    /\ reserve_queue' = IF conn = "up" THEN reserve_queue ELSE Append(reserve_queue, asend)
    /\ apc' = "select"
    /\ asend' = NoFrame
    /\ UNCHANGED <<rx, conn, adrain, produced, bounced, s2c>>
    /\ UNCHANGED <<serverRest, codecVars, linkVars, clockVars>>

\* the send of the action's frame returns; an error is logged
AgentSendDone ==
    /\ apc = "send"
    /\ StreamSend(asend)
    /\ apc' = "select"
    /\ asend' = NoFrame
    /\ UNCHANGED <<rx, reserve_queue, conn, adrain, produced, bounced, s2c>>
    /\ UNCHANGED <<serverRest, codecVars, linkVars, clockVars>>

\* the tick branch of the agent's select! is taken
AgentTickBranch ==
    /\ apc = "select"
    /\ apc' = "tick"
    /\ UNCHANGED <<rx, reserve_queue, conn, asend, adrain, wire, produced, bounced, s2c>>
    /\ UNCHANGED <<serverRest, codecVars, linkVars>>

\* select!: interval.tick() is ready and its branch is taken, at whatever
\* time
AgentTick ==
    /\ AgentTickBranch
    /\ UNCHANGED clockVars

\* a period of RETRY_RESERVE_INTERVAL_SECS passes: one more deadline of the
\* interval is behind.  An agent waiting at select! with a tick due takes
\* it before more time passes; an agent whose send waits for StubbornIo to
\* reconnect is stalled for as long as that takes.
AgentElapse ==
    /\ due < MaxDue
    /\ due = 0 \/ (apc \in {"send", "drain"} /\ conn = "reconnecting")
    /\ due' = due + 1
    /\ fdue' = fdue
    /\ UNCHANGED <<serverVars, agentVars, codecVars, linkVars>>

\* interval.tick() with the clock: it completes when a deadline has passed.
\* The interval of run() is made by interval(period), whose
\* MissedTickBehavior is Burst: each missed deadline gives a tick of its
\* own, back to back.
AgentTickDue ==
    /\ due > 0
    /\ AgentTickBranch
    /\ due' = due - 1
    /\ fdue' = fdue

\* the body of the tick branch, up to the first send of the retry loop.
\* Vec::drain(..RETRY_RESERVE_BATCH_SIZE) panics when the vector is shorter
\* than the range.
AgentRetry ==
    /\ apc = "tick"
    /\ IF reserve_queue = <<>>
       THEN apc' = "select" /\ UNCHANGED <<reserve_queue, adrain>>
       ELSE IF Len(reserve_queue) < RETRY_RESERVE_BATCH_SIZE
       THEN apc' = "panicked" /\ UNCHANGED <<reserve_queue, adrain>>
       ELSE /\ adrain' = SubSeq(reserve_queue, 1, RETRY_RESERVE_BATCH_SIZE)
            /\ reserve_queue' =
                 SubSeq(reserve_queue, RETRY_RESERVE_BATCH_SIZE + 1, Len(reserve_queue))
            /\ apc' = "drain"
    /\ UNCHANGED <<rx, conn, asend, wire, produced, bounced, s2c>>
    /\ UNCHANGED <<serverRest, codecVars, linkVars, clockVars>>

\* one iteration of the retry loop: the send of a drained frame returns; an
\* error is logged
AgentDrainSend ==
    /\ apc = "drain"
    /\ StreamSend(Head(adrain))
    /\ adrain' = Tail(adrain)
    /\ apc' = IF Tail(adrain) = <<>> THEN "select" ELSE "drain"
    /\ UNCHANGED <<rx, reserve_queue, conn, asend, produced, bounced, s2c>>
    /\ UNCHANGED <<serverRest, codecVars, linkVars, clockVars>>

(***************************************************************************)
(* One record followed through both conversions: encoded by the agent,     *)
(* decoded by the handler, encoded again for the way back, and pushed onto *)
(* the reserve queue as received.                                          *)
(***************************************************************************)
CodecActions ==
    {Action(id, ip, kind, detail, created) :
        id \in {1, 70000}, ip \in IpAddrs, kind \in Kinds,
        detail \in JsonValues \cup {NoDetail}, created \in Times}

InitCodec ==
    /\ cpc = "new"
    /\ cact = Action(1, "127.0.0.1", "player_join", NoDetail, [hour |-> 13, nanos |-> 0])
    /\ cwire = NoFrame
    /\ cdec = NoAction
    /\ cback = NoFrame

\* the agent: action.try_into()? and the send
CodecSend ==
    /\ cpc = "new"
    /\ cwire' = Encode(cact).v
    /\ cpc' = "sent"
    /\ UNCHANGED <<cact, cdec, cback, reserve_queue>>
    /\ UNCHANGED <<serverVars, agentRest, linkVars, clockVars>>

\* the handler: Action::try_from(bf)
CodecDecode ==
    /\ cpc = "sent"
    /\ IF Decode(cwire).ok
       THEN cdec' = Decode(cwire).v /\ cpc' = "decoded"
       ELSE cdec' = NoAction /\ cpc' = "rejected"
    /\ UNCHANGED <<cact, cwire, cback, reserve_queue>>
    /\ UNCHANGED <<serverVars, agentRest, linkVars, clockVars>>

\* the handler: Bufferfish::try_from(action)? and the send back
CodecBounce ==
    /\ cpc = "decoded"
    /\ cback' = Encode(cdec).v
    /\ cpc' = "returned"
    /\ UNCHANGED <<cact, cwire, cdec, reserve_queue>>
    /\ UNCHANGED <<serverVars, agentRest, linkVars, clockVars>>

\* the agent: self.reserve_queue.push(Bufferfish::from(bytes))
CodecReserve ==
    /\ cpc = "returned"
    /\ reserve_queue' = Append(reserve_queue, cback)
    /\ cpc' = "reserved"
    /\ UNCHANGED <<cact, cwire, cdec, cback>>
    /\ UNCHANGED <<serverVars, agentRest, linkVars, clockVars>>

\* Config::max_packet_size as serde fills it: the value of the key, or
\* default_max_packet_size() when config.toml has no such key
ConfigMaxPacketSize(setting) == IF setting.some THEN setting.v ELSE DEFAULT_MAX_PACKET_SIZE

\* a config.toml without the max_packet_size key
InitConfigDefault ==
    toml_max_packet_size = None
        /\ max_packet_size = ConfigMaxPacketSize(toml_max_packet_size)

(***************************************************************************)
(* Spec: two peers; peer 1 sends well-formed records, peer 2 also frames   *)
(* of every other sort.                                                    *)
(***************************************************************************)
Init ==
    /\ toml_max_packet_size \in
         {None} \cup {Some(c) : c \in ConfigSizes \ {DEFAULT_MAX_PACKET_SIZE}}
    /\ max_packet_size = ConfigMaxPacketSize(toml_max_packet_size)
    /\ InitServer /\ InitAgent /\ InitCodec

Next ==
    \/ \E p \in Peers : Accept(p)
    \/ \E p \in Peers : sent[p] < MaxSend /\ SendRecord(p)
    \/ \E bytes \in MalformedFrames \cup OversizeFrames(max_packet_size)
                        \cup LimitFrames(max_packet_size) :
          junk[2] < MaxJunk /\ SendJunk(2, bytes)
    \/ \E p \in Peers : HandleWrite(p, FALSE)
    \/ \E p \in Peers : HandleEof(p)
    \/ FlusherTick
    \/ ProcessQueue
    \/ ExecuteDone(TRUE)

Spec == Init /\ [][Next]_vars

(***************************************************************************)
(* SpecLimit: the configurations of max_packet_size around the floor, and  *)
(* without the key, against one peer that sends frames of the lengths      *)
(* around each limit.                                                      *)
(***************************************************************************)
ProbePeer == CHOOSE p \in Peers : \A q \in Peers : p >= q

TomlSettings ==
    {None} \cup {Some(n) : n \in {0, MIN_PACKET_SIZE \div 2, MIN_PACKET_SIZE - 1,
                                  MIN_PACKET_SIZE, MIN_PACKET_SIZE + 1}}

InitLimit ==
    /\ toml_max_packet_size \in TomlSettings
    /\ max_packet_size = ConfigMaxPacketSize(toml_max_packet_size)
    /\ InitServer /\ InitAgent /\ InitCodec

NextLimit ==
    \/ Accept(ProbePeer)
    \/ sent[ProbePeer] < MaxSend /\ SendRecord(ProbePeer)
    \/ \E bytes \in ProbeFrames : junk[ProbePeer] < MaxJunk /\ SendJunk(ProbePeer, bytes)
    \/ HandleWrite(ProbePeer, FALSE)
    \/ HandleEof(ProbePeer)
    \/ FlusherTick
    \/ ProcessQueue
    \/ ExecuteDone(TRUE)

SpecLimit == InitLimit /\ [][NextLimit]_vars

(***************************************************************************)
(* SpecBulk: one peer sends more records than the queue has capacity for,  *)
(* and the allocator may refuse to grow the queue.                         *)
(***************************************************************************)
NextBulk ==
    \/ Accept(1)
    \/ sent[1] < BulkSend /\ SendRecord(1)
    \/ \E bytes \in {<<U32(0), Str("127.0.0.1/32")>>} :
          junk[1] < MaxJunk /\ SendJunk(1, bytes)
    \/ \E refused \in BOOLEAN : HandleWrite(1, refused)
    \/ \E ok \in BOOLEAN : HandleSend(1, ok)
    \/ FlusherTick
    \/ ProcessQueue
    \/ ExecuteDone(TRUE)

InitDefault ==
    InitConfigDefault /\ InitServer /\ InitAgent /\ InitCodec

SpecBulk == InitDefault /\ [][NextBulk]_vars

(***************************************************************************)
(* SpecStream: two peers and what their streams yield to the handlers:     *)
(* frames, read errors and the end of the stream.                          *)
(***************************************************************************)
NextStream ==
    \/ \E p \in Peers : Accept(p)
    \/ \E p \in Peers : sent[p] < MaxSend /\ SendRecord(p)
    \/ \E p \in Peers : HandleWrite(p, FALSE)
    \/ \E p \in Peers : HandleReadError(p)
    \/ \E p \in Peers : HandleAfterError(p)
    \/ \E p \in Peers : HandleEof(p)
    \/ FlusherTick
    \/ ProcessQueue
    \/ ExecuteDone(TRUE)

SpecStream == InitDefault /\ [][NextStream]_vars

(***************************************************************************)
(* SpecBounce: two peers send to a server whose queue is filled to its     *)
(* capacity by the records of earlier connections, with an allocator that  *)
(* may refuse to grow the vector.                                          *)
(***************************************************************************)
FullQueue == [i \in 1..INITIAL_CAPACITY |-> SampleAction(i)]

InitFull ==
    /\ InitConfigDefault /\ InitAgent /\ InitCodec
    /\ queue = FullQueue
    /\ capacity = INITIAL_CAPACITY
    /\ lock = NoOne
    /\ hpc = [p \in Peers |-> "idle"]
    /\ hact = [p \in Peers |-> NoAction]
    /\ hframe = [p \in Peers |-> <<>>]
    /\ s2c = [p \in Peers |-> <<>>]
    /\ sent = [p \in Peers |-> 0]
    /\ junk = [p \in Peers |-> 0]
    /\ allocFails = 0
    /\ fpc = "tick"
    /\ fdue = 1
    /\ batch = <<>>
    /\ table = <<>>

NextBounce ==
    \/ \E p \in Peers : Accept(p)
    \/ \E p \in Peers : sent[p] < MaxSend /\ SendRecord(p)
    \/ \E p \in Peers, refused \in BOOLEAN : HandleWrite(p, refused)
    \/ \E p \in Peers, ok \in BOOLEAN : HandleSend(p, ok)
    \/ \E p \in Peers : HandleEof(p)
    \/ FlusherTick
    \/ ProcessQueue
    \/ \E ok \in BOOLEAN : ExecuteDone(ok)

SpecBounce == InitFull /\ [][NextBounce]_vars

(***************************************************************************)
(* SpecDuplex: the agent and its handler over one connection whose socket  *)
(* buffers are bounded in both directions.  A send returns once the frame  *)
(* is in the buffer; with the buffer full it waits until the other end has *)
(* read.  The queue is at capacity and the allocator may refuse to grow.   *)
(***************************************************************************)
\* frames the agent has written that the handler has not read
InFlightToServer == Len(wire) - sent[AgentPeer]

\* self.stream.send(bf.into()).await of the recv branch, with the buffer
AgentSendDoneBuffered ==
    /\ InFlightToServer < SocketBuffer
    /\ AgentSendDone

\* frame.send(bf.into()).await in the handler, with the buffer
HandleSendBuffered(p) ==
    /\ Len(s2c[p]) < SocketBuffer
    /\ HandleSend(p, TRUE)

NextDuplex ==
    \/ \E a \in {SampleAction(IdOf(2, produced + 1))} :
          produced < MaxDuplexProduce /\ ProducerSend(a)
    \/ AgentRecv
    \/ AgentAction
    \/ AgentSendDoneBuffered
    \/ AgentTick
    \/ AgentRetry
    \/ Accept(AgentPeer)
    \/ HandleNext
    \/ \E refused \in BOOLEAN : HandleWrite(AgentPeer, refused)
    \/ HandleSendBuffered(AgentPeer)
    \/ FlusherTick
    \/ ProcessQueue
    \/ ExecuteDone(TRUE)

SpecDuplex == InitFull /\ [][NextDuplex]_vars

\* Fairness: the runtime polls every task that can make a step; select!
\* picks among its ready branches at random, so a branch that is ready again
\* and again is taken; a send completes once the buffer has room.
SpecDuplexFair ==
    /\ SpecDuplex
    /\ SF_vars(AgentRecv) /\ SF_vars(AgentAction) /\ SF_vars(AgentTick)
    /\ WF_vars(AgentSendDoneBuffered) /\ WF_vars(AgentRetry)
    /\ WF_vars(Accept(AgentPeer)) /\ WF_vars(HandleNext)
    /\ WF_vars(\E refused \in BOOLEAN : HandleWrite(AgentPeer, refused))
    /\ WF_vars(HandleSendBuffered(AgentPeer))
    /\ WF_vars(FlusherTick) /\ WF_vars(ProcessQueue) /\ WF_vars(ExecuteDone(TRUE))

(***************************************************************************)
(* SpecAgent: the client agent, its producers and the server end of its    *)
(* stream.                                                                 *)
(***************************************************************************)
NextAgent ==
    \/ \E a \in {SampleAction(IdOf(2, produced + 1))} :
          produced < MaxProduce /\ ProducerSend(a)
    \/ \E bytes \in {ValidFrame(IdOf(AgentPeer, bounced + 1))} :
          bounced < MaxBounce /\ ServerBounce(bytes)
    \/ Disconnect
    \/ Reconnected
    \/ ReconnectFailed
    \/ RetriesExhausted
    \/ AgentRecv
    \/ AgentAction
    \/ AgentSendDone
    \/ AgentTick
    \/ AgentRetry
    \/ AgentDrainSend

SpecAgent == InitDefault /\ [][NextAgent]_vars

(***************************************************************************)
(* SpecEncode: the client agent with a producer whose records may have a   *)
(* kind too long for the length prefix of a string.                        *)
(***************************************************************************)
RECURSIVE Doubled(_, _)
\* the text s, doubled k times
Doubled(s, k) == IF k = 0 THEN s ELSE Doubled(s \o s, k - 1)

\* a kind of U16_MAX + 1 characters
LongKind == Doubled("x", 16)

\* a record write_string refuses
UnencodableAction(id) ==
    Action(id, "127.0.0.1", LongKind, NoDetail, [hour |-> 13, nanos |-> 558038011])

NextEncode ==
    \/ \E a \in {SampleAction(IdOf(2, produced + 1)), UnencodableAction(IdOf(2, produced + 1))} :
          produced < MaxProduce /\ ProducerSend(a)
    \/ \E bytes \in {ValidFrame(IdOf(AgentPeer, bounced + 1))} :
          bounced < MaxBounce /\ ServerBounce(bytes)
    \/ AgentRecv
    \/ AgentAction
    \/ AgentSendDone
    \/ AgentTick
    \/ AgentRetry
    \/ AgentDrainSend

SpecEncode == InitDefault /\ [][NextEncode]_vars

(***************************************************************************)
(* SpecConnect: the connector, from the host and port the caller passes to *)
(* the address, the first connection, and the reconnect attempts after a   *)
(* lost connection.                                                        *)
(***************************************************************************)
InitConnectAll ==
    InitConfigDefault /\ InitServer /\ InitConnect /\ InitCodec

NextConnect ==
    \/ CreateAddr
    \/ \E ok \in BOOLEAN : RawConnect(ok)
    \/ Disconnect
    \/ Reconnected
    \/ ReconnectFailed
    \/ RetriesExhausted

SpecConnect == InitConnectAll /\ [][NextConnect]_vars

(***************************************************************************)
(* SpecAgentClock: the client agent with the clock of its retry interval;  *)
(* a lost connection is back at the first attempt, however long that takes.*)
(***************************************************************************)
NextAgentClock ==
    \/ \E a \in {SampleAction(IdOf(2, produced + 1))} :
          produced < MaxProduce /\ ProducerSend(a)
    \/ \E bytes \in {ValidFrame(IdOf(AgentPeer, bounced + 1))} :
          bounced < MaxBounce /\ ServerBounce(bytes)
    \/ Disconnect
    \/ Reconnected
    \/ AgentRecv
    \/ AgentAction
    \/ AgentSendDone
    \/ AgentElapse
    \/ AgentTickDue
    \/ AgentRetry
    \/ AgentDrainSend

SpecAgentClock == InitDefault /\ [][NextAgentClock]_vars

(***************************************************************************)
(* SpecFlusherClock: the queue processor with the clock of its interval,   *)
(* and two connections appending.                                          *)
(***************************************************************************)
NextFlusherClock ==
    \/ \E p \in Peers : Accept(p)
    \/ \E p \in Peers : sent[p] < MaxSend /\ SendRecord(p)
    \/ \E p \in Peers : HandleWrite(p, FALSE)
    \/ FlusherElapse
    \/ FlusherTickDue
    \/ ProcessQueue
    \/ \E ok \in BOOLEAN : ExecuteDone(ok)

SpecFlusherClock == InitDefault /\ [][NextFlusherClock]_vars

(***************************************************************************)
(* SpecInbound: the client agent when the frames that arrive on its stream *)
(* are of both sorts, records sent back and frames that decode to nothing. *)
(***************************************************************************)
\* a frame that is no record: the short read of MalformedFrames
ShortFrame == <<U32(0), Str("127.0.0.1/32")>>

\* the k-th frame that arrives: every InboundJunkEvery-th is no record
InboundFrame(k) ==
    IF k % InboundJunkEvery = 0 THEN ShortFrame ELSE ValidFrame(IdOf(AgentPeer, k))

NextInbound ==
    \/ \E a \in {SampleAction(IdOf(2, produced + 1))} :
          produced < MaxProduce /\ ProducerSend(a)
    \/ \E bytes \in {InboundFrame(bounced + 1)} :
          bounced < MaxBounce /\ ServerBounce(bytes)
    \/ Disconnect
    \/ Reconnected
    \/ AgentRecv
    \/ AgentAction
    \/ AgentSendDone
    \/ AgentTick
    \/ AgentRetry
    \/ AgentDrainSend

SpecInbound == InitDefault /\ [][NextInbound]_vars

(***************************************************************************)
(* SpecSenders: the client agent while the producers clone and drop their  *)
(* Sender handles; a lost connection is back at the first attempt.         *)
(***************************************************************************)
NextSenders ==
    \/ CloneSender
    \/ DropSender
    \/ \E a \in {SampleAction(IdOf(2, produced + 1))} :
          produced < MaxProduce /\ ProducerSend(a)
    \/ \E bytes \in {ValidFrame(IdOf(AgentPeer, bounced + 1))} :
          bounced < MaxBounce /\ ServerBounce(bytes)
    \/ Disconnect
    \/ Reconnected
    \/ AgentRecv
    \/ AgentAction
    \/ AgentSendDone
    \/ AgentTick
    \/ AgentRetry
    \/ AgentDrainSend

SpecSenders == InitDefault /\ [][NextSenders]_vars

(***************************************************************************)
(* SpecPipe: one producer, the agent, one connection, its handler and the  *)
(* queue processor; the connection stays up and nothing is sent back.      *)
(***************************************************************************)
NextPipe ==
    \/ \E a \in {SampleAction(IdOf(2, produced + 1))} :
          produced < MaxProduce /\ ProducerSend(a)
    \/ AgentAction
    \/ AgentSendDone
    \/ AgentTick
    \/ AgentRetry
    \/ Accept(AgentPeer)
    \/ HandleNext
    \/ HandleWrite(AgentPeer, FALSE)
    \/ FlusherTick
    \/ ProcessQueue
    \/ ExecuteDone(TRUE)

SpecPipe == InitDefault /\ [][NextPipe]_vars

(***************************************************************************)
(* SpecCodec: every record of CodecActions followed through the codec.     *)
(***************************************************************************)
NextCodec ==
    \/ CodecSend
    \/ CodecDecode
    \/ CodecBounce
    \/ CodecReserve

InitCodecAll ==
    /\ InitConfigDefault /\ InitServer /\ InitAgent
    /\ cpc = "new" /\ cact \in CodecActions /\ cwire = NoFrame /\ cdec = NoAction
    /\ cback = NoFrame

SpecCodec == InitCodecAll /\ [][NextCodec]_vars

(***************************************************************************)
(* SpecFlush: process_queue on queues of every length around LIMIT, each   *)
(* holding the records 1..n in the order they were appended.               *)
(***************************************************************************)
\* the queue after n records were appended to it
\* the i-th record of a long queue, by its id alone
Row(i) == [id |-> i]
QueueOf(n) == [i \in 1..n |-> Row(i)]

RECURSIVE CapacityFor(_, _)
\* the capacity of a vector that grew from cap to hold n records
CapacityFor(n, cap) == IF n <= cap THEN cap ELSE CapacityFor(n, GrownCapacity(cap, cap))

FlushSizes ==
    (0..MaxSmallQueue) \cup ((LIMIT - MaxNearLimit)..(LIMIT + MaxNearLimit))
        \cup {2 * LIMIT, 2 * LIMIT + 1, ScenarioRecords}

InitFlush ==
    /\ InitConfigDefault /\ InitAgent /\ InitCodec
    /\ \E n \in FlushSizes : queue = QueueOf(n) /\ capacity = CapacityFor(n, INITIAL_CAPACITY)
    /\ lock = NoOne
    /\ hpc = [p \in Peers |-> "idle"]
    /\ hact = [p \in Peers |-> NoAction]
    /\ hframe = [p \in Peers |-> <<>>]
    /\ s2c = [p \in Peers |-> <<>>]
    /\ sent = [p \in Peers |-> 0]
    /\ junk = [p \in Peers |-> 0]
    /\ allocFails = 0
    /\ fpc = "tick"
    /\ fdue = 1
    /\ batch = <<>>
    /\ table = <<>>

NextFlush ==
    \/ FlusherTick
    \/ ProcessQueue
    \/ \E ok \in BOOLEAN : ExecuteDone(ok)

SpecFlush == InitFlush /\ [][NextFlush]_vars

(***************************************************************************)
(* Fairness for the agent: the runtime polls a task that can make a step,  *)
(* select! picks among its ready branches at random, so a branch that is   *)
(* ready again and again is taken, and the connector goes through its      *)
(* retries.                                                                *)
(***************************************************************************)
SpecAgentFair ==
    /\ SpecAgent
    /\ SF_vars(AgentRecv) /\ SF_vars(AgentAction) /\ SF_vars(AgentTick)
    /\ WF_vars(AgentSendDone) /\ WF_vars(AgentRetry) /\ WF_vars(AgentDrainSend)
    /\ WF_vars(Reconnected \/ ReconnectFailed \/ RetriesExhausted)

(***************************************************************************)
(* The claims.                                                             *)
(***************************************************************************)
Range(seq) == {seq[i] : i \in 1..Len(seq)}

\* the records a peer's handler holds or has lost with a failed send back
Held(p) == IF hact[p] # NoAction \/ hpc[p] = "failed" THEN 1 ELSE 0

\* C1: no record is lost in the connection handler: every well-formed record
\* a peer has sent is in harp.actions, bound to the INSERT under way, in the
\* queue, sent back to the peer, or still with the handler.
C1_NoRecordLost ==
    \A p \in {1} :
        sent[p] = Len(table) + Len(batch) + Len(queue) + Len(s2c[p]) + Held(p)

\* C2: a flush of a queue of n records drains exactly min(n, 13107) records
\* from the head, and the other max(n - 13107, 0) stay in the queue in order.
C2_BatchLimit ==
    [][ (fpc = "write" /\ fpc' # "write") =>
          /\ Len(batch') = Min(Len(queue), 13107)
          /\ Len(queue') = Max(Len(queue) - 13107, 0)
          /\ batch' \o queue' = queue
          /\ (queue = <<>> => fpc' = "tick" /\ table' = table) ]_vars

\* C2 witness: the flush of 20000 records has drained 13107 and left 6893.
C2_Witness ==
    /\ fpc = "execute"
    /\ Len(batch) = 13107
    /\ Len(queue) = 6893
    /\ queue[1] = Row(13108)

\* C3: a retry tick that finds n > 0 frames in the reserve queue takes
\* min(n, 10) frames from its head, in order, to resend them, leaves the
\* others in place, and the agent keeps running; a tick that finds the
\* reserve queue empty changes nothing.
C3_RetryTick ==
    [][ (apc = "tick" /\ apc' # "tick") =>
          IF reserve_queue = <<>>
          THEN apc' = "select" /\ UNCHANGED <<reserve_queue, adrain, wire, rx, asend>>
          ELSE /\ apc' = "drain"
               /\ adrain' = SubSeq(reserve_queue, 1, Min(Len(reserve_queue), 10))
               /\ reserve_queue' =
                    SubSeq(reserve_queue, Min(Len(reserve_queue), 10) + 1,
                           Len(reserve_queue)) ]_vars

\* the frames the agent has read from its stream
Received == {ValidFrame(IdOf(AgentPeer, k)) : k \in 1..(bounced - Len(s2c[AgentPeer]))}

\* C4: a bounced frame stays in the reserve queue until its resend succeeded:
\* every frame the agent received is in the reserve queue, is being resent,
\* or was written to the stream.
C4_ReserveOwnsUntilResent ==
    apc # "panicked" =>
        Received \subseteq Range(reserve_queue) \cup Range(adrain) \cup Range(wire)

\* the peer whose handler is followed up to the queue's capacity
BulkPeer == AgentPeer

\* handler p has just read a frame
ReadsFrame(p) == sent'[p] + junk'[p] # sent[p] + junk[p]

\* the limit in force, from the configuration
LimitInForce == IF max_packet_size < 128 THEN 128 ELSE max_packet_size

\* C5: when the vector is full and cannot grow, the handler encodes the
\* record again and sends it to the peer it came from as one frame; the queue
\* is unchanged, and the handler goes on with the next frame (it ends only if
\* the write to the peer fails).
C5_Bounce ==
    /\ [](\A p \in Peers :
            hpc[p] \in {"write", "send"} => Decode(hframe[p]) = Ok(hact[p]))
    /\ [][\A p \in Peers :
            (hpc[p] = "write" /\ hpc'[p] = "send") =>
                /\ Len(queue) = capacity
                /\ queue' = queue /\ capacity' = capacity /\ hact'[p] = hact[p]
                /\ s2c' = s2c]_vars
    /\ [][\A p \in Peers :
            (hpc[p] = "send" /\ hpc'[p] # "send") =>
                /\ queue' = queue /\ capacity' = capacity /\ table' = table
                /\ \/ /\ s2c' = [s2c EXCEPT ![p] = Append(@, Encode(hact[p]).v)]
                      /\ hpc'[p] = "next"
                   \/ /\ s2c' = s2c
                      /\ hpc'[p] = "failed"]_vars

\* C5 witness: a record was sent back with the queue full, and the handler
\* has read the next frame.
C5_Witness ==
    /\ s2c[BulkPeer] = <<ValidFrame(IdOf(BulkPeer, INITIAL_CAPACITY + 1))>>
    /\ Len(queue) = INITIAL_CAPACITY
    /\ hpc[BulkPeer] = "write"
    /\ hact[BulkPeer] = SampleAction(IdOf(BulkPeer, INITIAL_CAPACITY + 2))

C8_DecodeErrorNotFatal ==
    /\ [][\A p \in Peers :
            (ReadsFrame(p) /\ BytesLen(hframe'[p]) <= LimitInForce
                /\ ~Decode(hframe'[p]).ok) =>
                hpc'[p] = "next" /\ queue' = queue /\ table' = table]_vars
    /\ [][\A p \in Peers :
            (junk[p] > 0 /\ hpc[p] = "write" /\ hpc'[p] # "write") =>
                (queue' = Append(queue, hact[p]) \/ hpc'[p] = "send")]_vars

\* C9: once the stream has failed for good, Harp::run is left.
C9_AgentExits == (conn = "dead") ~> (apc \in {"returned", "panicked"})

\* C10: the flusher does not hold the queue's lock while the INSERT is
\* executed.
C10_NoLockDuringInsert == fpc = "execute" => lock # Flusher


\* the ids of a sequence of records grow from each record to the next
Increasing(seq) == \A i \in 1..(Len(seq) - 1) : seq[i].id < seq[i + 1].id

\* C11 (flush ordering): the queue holds the records in the order they were
\* appended; a flush takes its batch from the head of the queue in queue
\* order and leaves the rest in order behind it, the INSERT emits the rows
\* of the batch in batch order after every row emitted before, so the rows
\* emitted, the batch in flight and the queue, one after the other, are
\* always in the order of appending, and every record of a later batch was
\* behind every record of the earlier one.
C11_FlushOrdering ==
    /\ [](Increasing(table \o batch \o queue))
    /\ [][fpc = "write" /\ fpc' = "execute" =>
            /\ batch' # <<>>
            /\ batch' = SubSeq(queue, 1, Len(batch'))
            /\ queue' = SubSeq(queue, Len(batch') + 1, Len(queue))]_vars
    /\ [][fpc = "execute" /\ fpc' # "execute" =>
            /\ table' \in {table \o batch, table}
            /\ queue' = queue]_vars

\* the scenario of 20000 records flushed in two batches, both inserted: the
\* last row of the first batch is followed by the first row of the second
C11_Witness ==
    /\ fpc = "tick" /\ queue = <<>> /\ batch = <<>>
    /\ table = QueueOf(ScenarioRecords)
    /\ ScenarioRecords > LIMIT
    /\ table[LIMIT] = Row(LIMIT) /\ table[LIMIT + 1] = Row(LIMIT + 1)

\* the frames the agent holds or has written, oldest first: written to
\* the stream, being sent, still in the channel
PipeFrames ==
    wire \o (IF asend = NoFrame THEN <<>> ELSE <<asend>>)
         \o [i \in 1..Len(rx) |-> Encode(rx[i]).v]

\* the records the server holds, oldest first: inserted, in the batch, in
\* the queue, decoded and about to be appended
PipeRecords ==
    table \o batch \o queue
          \o (IF hpc[AgentPeer] = "write" THEN <<hact[AgentPeer]>> ELSE <<>>)

\* C12 (producer ordering): with one producer, the frames the agent has
\* written to the stream, followed by the one it is sending and by those of
\* the actions waiting in the channel, are the frames of the records in the
\* order of the send() calls; and with one connection and nothing sent back
\* the records the server has appended to the queue (flushed or not) are the
\* records of the frames read from the stream, in the order written.
C12_ProducerOrdering ==
    /\ PipeFrames = [k \in 1..produced |-> ValidFrame(IdOf(2, k))]
    /\ PipeRecords = [k \in 1..sent[AgentPeer] |-> DecodeTable[wire[k]].v]
    /\ sent[AgentPeer] <= Len(wire)

\* every record of the producer went through: some inserted, some queued
C12_Witness ==
    /\ produced = MaxProduce /\ produced > 1
    /\ Len(wire) = produced /\ sent[AgentPeer] = produced
    /\ table # <<>> /\ queue # <<>>
    /\ Len(table) + Len(queue) = produced
    /\ s2c[AgentPeer] = <<>>

\* C13 (dropping senders): once the producers have dropped every Sender
\* handed out, no handle comes back, run() does not return because of it,
\* the drop itself changes nothing the agent sees, and the select! of
\* run() still offers the tick branch always, the stream branch whenever a
\* frame sent back is waiting, and the channel branch for the actions still
\* in the channel; a frame taken from the stream still goes to the end of
\* the reserve queue, and the retry loop still drains it.
C13_DropDoesNotStop ==
    /\ [](~ChannelDisconnected)
    /\ [][handles = 0 => handles' = 0]_vars
    /\ [][handles' < handles => UNCHANGED <<agentVars, s2c>>]_vars
    /\ [][handles = 0 /\ apc # "returned" => apc' # "returned"]_vars
    /\ [](handles = 0 /\ apc = "select" =>
            /\ ENABLED AgentTick
            /\ (conn = "up" /\ s2c[AgentPeer] # <<>> => ENABLED AgentRecv)
            /\ (rx # <<>> => ENABLED AgentAction))
    /\ [](handles = 0 /\ apc = "tick" => ENABLED AgentRetry)
    /\ [][handles = 0 /\ Len(s2c'[AgentPeer]) < Len(s2c[AgentPeer]) =>
            reserve_queue' = Append(reserve_queue, Head(s2c[AgentPeer]))]_vars

\* no handle is left, and the agent is in the retry loop of a tick, with
\* frames it has received still in the reserve queue
C13_Witness ==
    /\ handles = 0
    /\ apc = "drain"
    /\ reserve_queue # <<>>
    /\ rx = <<>>

\* C14 (database error in the flusher): a batch insert that fails (the
\* batch is gone and no row was added) leaves the drained records in no
\* place: the batch is empty, the queue is what was left behind by the
\* drain, untouched, and no row of the batch is in the table; the guard is
\* released, the queue processor is back at its interval (it has no state
\* but tick, lock and insert) and the next tick is offered.
C14_DbErrorDiscards ==
    /\ [][fpc = "execute" /\ fpc' # "execute" /\ table' = table =>
            /\ batch # <<>> /\ batch' = <<>>
            /\ queue' = queue /\ capacity' = capacity
            /\ (queue' # <<>> => batch[Len(batch)].id < queue'[1].id)
            /\ (table' # <<>> => table'[Len(table')].id < batch[1].id)
            /\ lock' = NoOne
            /\ fpc' = "tick"]_vars
    /\ [](fpc \in {"tick", "write", "execute"})
    /\ [](fpc = "tick" => ENABLED FlusherTick)
    /\ [](fpc = "write" /\ lock = NoOne => ENABLED ProcessQueue)

\* the scenario of 20000 records when the first INSERT failed and the
\* second did not: the table holds the rows of the second batch alone
C14_Witness ==
    /\ fpc = "tick" /\ queue = <<>> /\ batch = <<>>
    /\ ScenarioRecords > LIMIT
    /\ Len(table) = ScenarioRecords - LIMIT
    /\ table[1] = Row(LIMIT + 1)

\* C15 (codec round trip): every record, once encoded by the agent and
\* decoded by the handler, is decoded without error and equals the record
\* encoded, in id, addr, kind, detail and created.
C15_CodecRoundTrip ==
    cpc \in {"decoded", "rejected"} => cpc = "decoded" /\ cdec = cact

\* the loopback address and the addresses of the texts that parse
Loopback == <<127, 0, 0, 1>>
ParsedHost(h) == (CHOOSE e \in IpAddrTable : e[1] = h)[2]
Parses(h) == \E e \in IpAddrTable : e[1] = h

\* C16 (address default fallback): for every host and port, create_addr
\* gives an address (the step is always possible and ends with one); its
\* host is the parsed address when a host is given and parses, 127.0.0.1 when
\* none is given or it does not parse; its port is the port given, 7777 when
\* none is.  The three cases of the test always_return_valid_addr among them.
C16_AddrFallback ==
    /\ conn = "new" => ENABLED CreateAddr
    /\ conn # "new" =>
          /\ addr.ip = IF host.some /\ Parses(host.v) THEN ParsedHost(host.v) ELSE Loopback
          /\ addr.port = IF port.some THEN port.v ELSE 7777
          /\ addr.port \in 0..U16_MAX
          /\ Len(addr.ip) \in {4, 8}
    /\ conn # "new" /\ host = None /\ port = None =>
          addr = [ip |-> <<127, 0, 0, 1>>, port |-> 7777]
    /\ conn # "new" /\ host \in {Some("not-an-ip"), Some("hello, world!")} /\ port = None =>
          addr = [ip |-> <<127, 0, 0, 1>>, port |-> 7777]
    /\ conn # "new" /\ host = Some("255.255.255.255") /\ port = Some(7000) =>
          addr = [ip |-> <<255, 255, 255, 255>>, port |-> 7000]

\* a host that does not parse, with a port: the agent is connected to the
\* loopback address at that port
C16_Witness ==
    /\ conn = "up"
    /\ host = Some("not-an-ip") /\ port = Some(7000)
    /\ addr = [ip |-> <<127, 0, 0, 1>>, port |-> 7000]

C18_RetryTicksCoalesced ==
    [][apc = "select" /\ apc' = "tick" => due' = 0]_vars

\* C19 (flusher tick coalescing): the ticks missed while the queue
\* processor was delayed are coalesced: when it takes a tick, no further
\* tick is due until the next period has passed, so a delay of k periods is
\* followed by one flush and not by k.
C19_FlushTicksCoalesced ==
    [][fpc = "tick" /\ fpc' = "write" => fdue' = 0]_vars

\* the tasks inside a critical section on the queue: the queue processor
\* from the drain to the end of process_queue, a handler while it sends a
\* record back (the append and the reservation are inside one step)
InCritical ==
    {Handler(p) : p \in {q \in Peers : hpc[q] = "send"}}
        \cup (IF fpc = "execute" THEN {Flusher} ELSE {})

C21_InboundReserved ==
    [][Len(s2c'[AgentPeer]) < Len(s2c[AgentPeer]) =>
          /\ s2c'[AgentPeer] = Tail(s2c[AgentPeer])
          /\ reserve_queue' = reserve_queue \o <<Head(s2c[AgentPeer])>>
          /\ SubSeq(reserve_queue', 1, Len(reserve_queue)) = reserve_queue
          /\ wire' = wire /\ rx' = rx
          /\ asend' = asend /\ adrain' = adrain
          /\ apc = "select" /\ apc' = "select"]_vars

\* four frames received with an action waiting in the channel: three
\* records in arrival order, then the frame that is no record
C21_Witness ==
    /\ Len(reserve_queue) = InboundJunkEvery
    /\ reserve_queue[InboundJunkEvery] = ShortFrame
    /\ ~DecodeTable[ShortFrame].ok
    /\ reserve_queue[1] = ValidFrame(IdOf(AgentPeer, 1))
    /\ rx # <<>>
    /\ s2c[AgentPeer] = <<>>

\* the records the server has accepted: inserted, in the batch, in the queue
Accepted == Range(table) \cup Range(batch) \cup Range(queue)

\* C22 (the server sends back only what it could not accept): a handler
\* writes to its peer only from the send-back, which it enters only from a
\* full queue whose reservation the allocator has just refused, holding the
\* guard; the frame written is the encoding of the record decoded from the
\* frame last read from that peer; and every frame ever written to a peer
\* decodes to a record that this peer sent and that is in none of the
\* table, the batch and the queue.
C22_OnlyUnaccepted ==
    /\ [][\A p \in Peers :
            s2c'[p] # s2c[p] =>
                /\ hpc[p] = "send" /\ lock = Handler(p)
                /\ Len(queue) = capacity
                /\ Decode(hframe[p]) = Ok(hact[p])
                /\ hact[p] \notin Accepted
                /\ s2c'[p] = Append(s2c[p], Encode(hact[p]).v)
                /\ queue' = queue]_vars
    /\ [][\A p \in Peers :
            hpc'[p] = "send" /\ hpc[p] # "send" =>
                /\ hpc[p] = "write"
                /\ Len(queue) = capacity /\ queue' = queue /\ capacity' = capacity
                /\ allocFails' = allocFails + 1]_vars
    /\ [](\A p \in Peers : \A i \in 1..Len(s2c[p]) :
            /\ Decode(s2c[p][i]).ok
            /\ Decode(s2c[p][i]).v \notin Accepted
            /\ \E k \in 1..sent[p] : s2c[p][i] = ValidFrame(IdOf(p, k)))

\* a record was sent back, and every record accepted before it has been
\* inserted: the one sent back is not among the rows
C22_Witness ==
    /\ Len(s2c[BulkPeer]) = 1
    /\ hpc[BulkPeer] = "next"
    /\ queue = <<>> /\ batch = <<>>
    /\ Len(table) = INITIAL_CAPACITY
    /\ Decode(s2c[BulkPeer][1]).v \notin Range(table)

\* the limit as the claim states it, from the key of config.toml
ClaimedLimit ==
    LET set == IF toml_max_packet_size.some THEN toml_max_packet_size.v ELSE 1024
    IN  IF set >= 128 THEN set ELSE 128

\* C23 (effective frame limit): the handler's limit is the greater of the
\* configured max_packet_size and 128, with 1024 configured when the key is
\* absent; a frame read ends the handler exactly when its payload is longer
\* than that limit, and a well-formed frame of at most the limit (of
\* exactly the limit among them, and of up to 128 bytes when the setting is
\* lower) is decoded and handed on for the append.
C23_EffectiveLimit ==
    /\ [](EffectiveLimit(max_packet_size) = ClaimedLimit)
    /\ [][\A p \in Peers :
            ReadsFrame(p) =>
                /\ hpc'[p] = "done" <=> BytesLen(hframe'[p]) > ClaimedLimit
                /\ (BytesLen(hframe'[p]) <= ClaimedLimit /\ Decode(hframe'[p]).ok) =>
                      hpc'[p] = "write" /\ hact'[p] = Decode(hframe'[p]).v]_vars

\* max_packet_size = 64 is configured and a well-formed frame of exactly 128
\* bytes has been decoded and is about to be appended
C23_Witness ==
    /\ toml_max_packet_size = Some(64)
    /\ BytesLen(hframe[ProbePeer]) = 128
    /\ hpc[ProbePeer] = "write"
    /\ hact[ProbePeer] = SampleAction(0)

\* C24: one INSERT per flush.  A flush that finds the queue empty runs no
\* statement and leaves queue, batch and table as they were; a flush that
\* finds records runs one statement, which binds 5 parameters for each record
\* drained and never more than 65535; the flusher goes from that statement
\* straight back to waiting for its next tick.
C24_OneInsertPerFlush ==
    /\ [][ (fpc = "write" /\ fpc' # "write") =>
             IF queue = <<>>
             THEN fpc' = "tick" /\ queue' = queue /\ batch' = batch /\ table' = table
                  /\ lock' = NoOne
             ELSE /\ fpc' = "execute"
                  /\ batch' # <<>>
                  /\ BoundParameters(batch') = 5 * (Len(queue) - Len(queue'))
                  /\ BoundParameters(batch') <= 65535 ]_vars
    /\ [][ (fpc = "execute" /\ fpc' # "execute") =>
             /\ fpc' = "tick"
             /\ batch' = <<>>
             /\ Len(table') \in {Len(table), Len(table) + Len(batch)} ]_vars
    /\ [](fpc = "execute" <=> batch # <<>>)
    /\ [](Len(Columns) = 5)

\* C24 witness: the statement of a queue of exactly 13107 records is running:
\* it binds 65535 parameters and the queue is empty.
C24_Witness ==
    /\ fpc = "execute"
    /\ BoundParameters(batch) = 65535
    /\ queue = <<>>
    /\ table = <<>>


\* C25: a failed send of a producer's record.  When the send of the frame of
\* a record taken from the channel fails, the frame reaches neither the
\* stream nor the reserve queue nor the channel, the agent is back at its
\* select!, and the record it takes next from the channel is the one the
\* producer sent next, encoded and sent as usual.
C25_SendFailureDrops ==
    /\ [][ (apc = "send" /\ conn = "dead" /\ apc' # "send") =>
             /\ wire' = wire
             /\ reserve_queue' = reserve_queue
             /\ rx' = rx
             /\ adrain' = adrain
             /\ asend' = NoFrame
             /\ apc' = "select" ]_vars
    /\ [][ (apc = "select" /\ conn = "dead" /\ apc' = "send") =>
             /\ rx # <<>>
             /\ rx' = Tail(rx)
             /\ asend' = Encode(Head(rx)).v ]_vars
    /\ [](conn = "dead" /\ apc = "select" /\ rx # <<>> => ENABLED AgentAction)

\* C25 witness: the stream has failed for good, the send of the first record
\* has failed and the record is gone; the agent is at its select! with the
\* second record waiting on the channel.
C25_Witness ==
    /\ conn = "dead"
    /\ apc = "select"
    /\ produced = 2
    /\ rx = <<SampleAction(IdOf(2, 2))>>
    /\ asend = NoFrame
    /\ wire = <<>>
    /\ reserve_queue = <<>>


\* C26: what a handler does on the events of its stream.  After a read error
\* the handler goes on reading from the same peer: the step it takes next
\* reads that peer's next frame or sees its end of stream, and it has not
\* returned before.  At the end of the stream the handler returns Ok and the
\* records it has enqueued stay where they are.
C26_StreamEvents ==
    /\ [][ \A p \in Peers :
               (hpc[p] = "errored" /\ hpc'[p] # "errored") => hpc'[p] # "done" ]_vars
    /\ [][ \A p \in Peers :
               (hpc[p] = "next" /\ hpc'[p] = "done" /\ ~ReadsFrame(p)) =>
                   queue' = queue /\ batch' = batch /\ table' = table ]_vars


\* C27: the guard during the send back.  The handler that sends a record
\* back took the guard in the step that found the queue full and keeps it
\* until the send has returned, with or without an error; while it sends,
\* queue, capacity and batch do not change, and neither the flusher nor a
\* handler of another peer can take the guard.
C27_GuardHeldDuringBounce ==
    /\ [](\A p \in Peers : hpc[p] = "send" => lock = Handler(p))
    /\ [][ \A p \in Peers :
               (hpc[p] = "write" /\ hpc'[p] = "send") =>
                   lock = NoOne /\ lock' = Handler(p) ]_vars
    /\ [][ \A p \in Peers :
               (hpc[p] = "send" /\ hpc'[p] = "send") =>
                   /\ lock' = lock /\ queue' = queue /\ capacity' = capacity
                   /\ batch' = batch /\ table' = table ]_vars
    /\ [][ \A p \in Peers :
               (lock = Handler(p) /\ lock' # lock) =>
                   /\ hpc[p] = "send" /\ hpc'[p] \in {"next", "failed"}
                   /\ lock' = NoOne ]_vars
    /\ [](\A p \in Peers :
            hpc[p] = "send" =>
                /\ ~ENABLED ProcessQueue
                /\ \A q \in Peers \ {p} : \A r \in BOOLEAN : ~ENABLED HandleWrite(q, r))

\* C27 witness: one handler is sending a record back; the handler of the
\* other peer has a record to append and the flusher has had its tick, and
\* both wait for the guard.
C27_Witness ==
    /\ \E p \in Peers :
          /\ hpc[p] = "send" /\ lock = Handler(p)
          /\ \E q \in Peers \ {p} : hpc[q] = "write" /\ hact[q] # NoAction
    /\ fpc = "write"
    /\ Len(queue) = capacity


\* C28: an action that cannot be encoded ends the agent.  The step that
\* takes such an action from the channel makes run return, with nothing
\* written to the stream; once run has returned nothing is written any
\* more, whatever is sent on the channel afterwards and whatever frames the
\* reserve queue holds; and run returns in no other step.
C28_EncodeFailureEndsAgent ==
    /\ [](Len(LongKind) = U16_MAX + 1)
    /\ [][ (apc = "select" /\ Len(rx') < Len(rx)) =>
             IF Encode(Head(rx)).ok
             THEN apc' = "send"
             ELSE apc' = "returned" /\ wire' = wire /\ reserve_queue' = reserve_queue ]_vars
    /\ [][ apc = "returned" =>
             apc' = "returned" /\ wire' = wire /\ reserve_queue' = reserve_queue
                 /\ Len(rx') >= Len(rx) ]_vars
    /\ [][ (apc # "returned" /\ apc' = "returned") =>
             apc = "select" /\ rx # <<>> /\ ~Encode(Head(rx)).ok ]_vars

\* C28 witness: run has returned on the first action of the producer; the
\* action sent after it is on the channel and a frame the server sent back
\* is in the reserve queue, and nothing has reached the stream.
C28_Witness ==
    /\ apc = "returned"
    /\ produced = 2
    /\ rx = <<SampleAction(IdOf(2, 2))>>
    /\ reserve_queue # <<>>
    /\ wire = <<>>


\* the records the server holds or has sent back, place after place
Placed ==
    table \o batch \o queue
        \o [i \in 1..Len(s2c[1]) |-> Decode(s2c[1][i]).v]
        \o [i \in 1..Len(s2c[2]) |-> Decode(s2c[2][i]).v]

\* the records the server was given: those of earlier connections and those
\* the peers have sent
Given ==
    Range(FullQueue) \cup {SampleAction(IdOf(p, k)) : p \in Peers, k \in 1..MaxSend}

\* C29: no duplication on the server.  No record is in two places, or twice
\* in one, among harp.actions, the batch of the INSERT under way, the
\* queue and the frames sent back; each of them is a record the server was
\* given, and a record still with its handler is in none of them.  A flush
\* splits the queue into the batch and what stays, and when the INSERT has
\* returned, with or without an error, the batch is gone and the queue is
\* as it was.
C29_NoDuplication ==
    /\ [](Cardinality(Range(Placed)) = Len(Placed))
    /\ [](Range(Placed) \subseteq Given)
    /\ [](\A p \in Peers : hact[p] # NoAction => hact[p] \notin Range(Placed))
    /\ [][ (fpc = "write" /\ fpc' = "execute") =>
             batch' \o queue' = queue /\ Range(batch') \cap Range(queue') = {} ]_vars
    /\ [][ (fpc = "execute" /\ fpc' = "tick") =>
             /\ queue' = queue /\ batch' = <<>>
             /\ table' \in {table, table \o batch} ]_vars
    /\ [][ \A p \in Peers :
               (hpc[p] = "write" /\ hpc'[p] # "write") =>
                   /\ Len(queue') <= Len(queue) + 1
                   /\ (hpc'[p] = "send" => queue' = queue) ]_vars

\* C29 witness: the 100 records of the full queue were drained and inserted,
\* one peer's record was sent back and the other peer's record is the only
\* one in the queue.
C29_Witness ==
    /\ Len(table) = INITIAL_CAPACITY
    /\ batch = <<>>
    /\ \E p \in Peers :
          /\ Len(s2c[p]) = 1
          /\ \E q \in Peers \ {p} : queue = <<SampleAction(IdOf(q, 1))>>


\* C30: lock progress.  A handler that holds the guard of the queue gives it
\* up at some later time, and a flusher that has had its tick gets the guard
\* at some later time, whatever the agent at the other end of the
\* connection is doing.
C30_LockProgress ==
    /\ \A p \in Peers : (lock = Handler(p)) ~> (lock # Handler(p))
    /\ (fpc = "write") ~> (fpc # "write")

=============================================================================
